---------------------------- MODULE Spec2Model ----------------------------
(***************************************************************************)
(* A model of the conversation-history subsystem of the chat bot:          *)
(*   src/src/message_history.py  (HistoryMessage, ConversationHistoryLock, *)
(*                                ConversationHistoryRepoObject, ...Repo)  *)
(*   src/src/bot.py              (DiscordBot.chat, .incognito_chat,        *)
(*                                .transcript, .clear_transcript,          *)
(*                                .batch_response)                         *)
(*   src/src/openai_client.py    (MAX_PROMPT_LENGTH, create_completion)    *)
(*                                                                         *)
(* A string is a sequence of characters; the characters that matter are    *)
(* sp (a space), nl (a newline), tab (a horizontal tab) and x (any other   *)
(* printable character).        Every `await` of a handler is one step of  *)
(* the handler's invocation; invocations interleave at these steps, as     *)
(* coroutines on one asyncio event loop do.                                *)
(***************************************************************************)
EXTENDS Integers, Sequences, FiniteSets, TLC

(***************************************************************************)
(* Bounds of the model.                                                    *)
(***************************************************************************)
\* Handler invocations that can be in flight at the same time.
NumProcs == 2
\* SpecTrim: the longest history and the largest budget handed to trim.
MaxMsgs == 3
MaxBudget == 12
\* SpecBatch: the longest text and the largest batch_size handed to
\* batch_response.
MaxText == 5
MaxBatch == 3

\* openai_client.MAX_PROMPT_LENGTH is 4096; the model scales it down so that
\* two turns fit the budget and a third one does not.
MAX_PROMPT_LENGTH == 16

Procs == 1..NumProcs

\* interaction.user.id of the person talking to the bot, and self.user.id.
Users == {1}
BotId == 3
Ids == Users \cup {BotId}

\* The value of a Redis key that does not exist (redis GET returns None), and
\* the value of a lock key nobody holds.
NoKey == <<>>
NoHolder == 0

\* Optional[str] of create_completion: None, and the marker of an invocation
\* that has not called the client.
None == <<"None">>
NotAsked == <<"NotAsked">>

RECURSIVE Flatten(_)
\* The concatenation of the sequences of seqs.
Flatten(seqs) ==
    IF seqs = <<>> THEN <<>> ELSE Head(seqs) \o Flatten(Tail(seqs))

RECURSIVE SumLen(_)
\* The sum of the lengths of the sequences of seqs.
SumLen(seqs) ==
    IF seqs = <<>> THEN 0 ELSE Len(Head(seqs)) + SumLen(Tail(seqs))

RECURSIVE Join(_, _)
\* str.join: the sequences of seqs with sep between them.
Join(sep, seqs) ==
    IF seqs = <<>> THEN <<>>
    ELSE IF Len(seqs) = 1 THEN Head(seqs)
    ELSE Head(seqs) \o sep \o Join(sep, Tail(seqs))

(***************************************************************************)
(* UsernamesMapper and HistoryMessage.                                     *)
(***************************************************************************)
\* DiscordUsernamesMapper.get_username when the user is found: the display
\* name.  (A lookup that fails raises DiscordUsernameNotFound; the steps that
\* call it choose whether it does.)
get_username(user_id) ==
    IF user_id = BotId THEN <<"b">> ELSE <<"u">>

HistoryMessage(author_id, body) ==
    [author_id |-> author_id, body |-> body]

\* HistoryMessage.as_transcript_str: the name, a colon, a space, the body.
as_transcript_str(msg) ==
    get_username(msg.author_id) \o <<":", "sp">> \o msg.body

\* ConversationHistoryRepoObject.as_transcript_lines: the lines and the sum of
\* their lengths (the newlines that later join them are not counted).
as_transcript_lines(messages) ==
    LET lines == [k \in 1..Len(messages) |-> as_transcript_str(messages[k])]
    IN  [lines |-> lines, total_len |-> SumLen(lines)]

\* A trim that evicts from the wrong end.
TrimPopLast(messages, max_characters, lookup_ok) ==
    IF messages # <<>> /\ ~lookup_ok
    THEN [messages |-> messages, raised |-> "DiscordUsernameNotFound"]
    ELSE IF as_transcript_lines(messages).total_len > max_characters
         THEN [messages |-> SubSeq(messages, 1, Len(messages) - 1),
               raised |-> "TypeError"]
         ELSE [messages |-> messages, raised |-> "none"]

\* ConversationHistoryRepoObject.trim.  as_transcript_lines resolves the name
\* of every author first, and raises when a lookup fails.  When the total
\* exceeds max_characters the loop body runs: pop(0) removes the oldest
\* message, and len() of the un-awaited coroutine as_transcript_str(...)
\* raises TypeError, so the loop never reaches a second iteration.
trim(messages, max_characters, lookup_ok) ==
    IF messages # <<>> /\ ~lookup_ok
    THEN [messages |-> messages, raised |-> "DiscordUsernameNotFound"]
    ELSE IF as_transcript_lines(messages).total_len > max_characters
         THEN [messages |-> Tail(messages), raised |-> "TypeError"]
         ELSE [messages |-> messages, raised |-> "none"]

(***************************************************************************)
(* RM_LEADING_NEWLINES is a multi-line pattern: at the start of a line,    *)
(* any number of characters of the class (space, carriage return,         *)
(* newline), then group 1, the rest of the line.                           *)
(* chat replaces ai_resp by group 1 of the first match followed by the     *)
(* text after group 1.  The match starts at offset 0: the class takes the  *)
(* longest run of spaces, carriage returns and newlines, group 1 is the    *)
(* rest of that line, and the text after group 1 is put back.  A tab is    *)
(* not in the class.                                                       *)
(***************************************************************************)
RegexClass == {"sp", "nl"}

RECURSIVE DropLeading(_, _)
DropLeading(class, s) ==
    IF s # <<>> /\ Head(s) \in class THEN DropLeading(class, Tail(s)) ELSE s

rm_leading_newlines(ai_resp) == DropLeading(RegexClass, ai_resp)

(***************************************************************************)
(* DiscordBot.batch_response, one loop iteration at a time.  st holds the  *)
(* position in the function (at the head of the for loop, at the head of   *)
(* the while loop, returned) and its locals.                               *)
(***************************************************************************)
\* bot.MAX_DISCORD_MSG_LENGTH is 2000, less than half of MAX_PROMPT_LENGTH;
\* the model scales it down with it.
MAX_DISCORD_MSG_LENGTH == 10

RECURSIVE Split(_, _)
\* str.split with a separator: the pieces between the separators, with acc
\* the piece being read.  A text with n separators has n + 1 pieces.
Split(s, acc) ==
    IF s = <<>> THEN <<acc>>
    ELSE IF Head(s) = "sp" THEN <<acc>> \o Split(Tail(s), <<>>)
    ELSE Split(Tail(s), Append(acc, Head(s)))

\* The slices s[:n] and s[n:] of Python, for any integer n.
SliceTo(s, n) ==
    IF n >= 0 THEN SubSeq(s, 1, IF n < Len(s) THEN n ELSE Len(s))
    ELSE SubSeq(s, 1, Len(s) + n)

SliceFrom(s, n) ==
    IF n >= 0 THEN SubSeq(s, n + 1, Len(s))
    ELSE SubSeq(s, IF Len(s) + n < 0 THEN 1 ELSE Len(s) + n + 1, Len(s))

\* `batches = []; current_batch = ""; for word in in_msg.split(" "):`
batch_start(in_msg) ==
    [pc |-> "for", words |-> Split(in_msg, <<>>), word |-> <<>>,
     current_batch |-> <<>>, batches |-> <<>>]

\* `if current_batch == batch_size`: a str compared with an int, which are
\* never equal.
batch_is_full(current_batch, batch_size) == FALSE

\* A break by word that forgets the batch it closes.
BreakByWordDropsBatch(st, word, batch_size) ==
    IF Len(st.current_batch) + Len(word) <= batch_size
    THEN [st EXCEPT !.current_batch = @ \o word]
    ELSE [st EXCEPT !.current_batch = word]

\* The else branch of the for loop: `Otherwise break by word`.
break_by_word(st, word, batch_size) ==
    IF Len(st.current_batch) + Len(word) <= batch_size
    THEN [st EXCEPT !.current_batch = @ \o word]
    ELSE [st EXCEPT !.batches = Append(@, st.current_batch),
                    !.current_batch = word]

\* One iteration of the while loop: `break by character`.
break_by_character(st, batch_size) ==
    LET remaining_batch_size == batch_size - Len(st.current_batch)
        current_batch == st.current_batch
                           \o SliceTo(st.word, remaining_batch_size)
        word == SliceFrom(st.word, remaining_batch_size)
    IN  IF batch_is_full(current_batch, batch_size)
        THEN [st EXCEPT !.word = word, !.current_batch = <<>>,
                        !.batches = Append(@, current_batch)]
        ELSE [st EXCEPT !.word = word, !.current_batch = current_batch]

\* The next position of batch_response and its locals there.
BatchStep(st, batch_size) ==
    CASE st.pc = "for" /\ st.words = <<>> ->
           [st EXCEPT !.pc = "return",
                      !.batches = IF Len(st.current_batch) > 0
                                  THEN Append(@, st.current_batch) ELSE @]
      [] st.pc = "for" /\ st.words # <<>> ->
           LET word == Head(st.words) \o <<"sp">>
               rest == [st EXCEPT !.words = Tail(@)]
           IN  IF Len(word) > batch_size
               THEN [rest EXCEPT !.pc = "while", !.word = word]
               ELSE break_by_word(rest, word, batch_size)
      [] st.pc = "while" /\ Len(st.word) > 0 ->
           break_by_character(st, batch_size)
      [] st.pc = "while" /\ Len(st.word) = 0 ->
           [st EXCEPT !.pc = "for"]
      [] OTHER -> st

RECURSIVE BatchRun(_, _)
\* batch_response run from st on: what it returns, or that it never returns.
\* The function is deterministic, so an iteration that changes nothing is
\* repeated for ever.
BatchRun(st, batch_size) ==
    IF st.pc = "return" THEN [hangs |-> FALSE, batches |-> st.batches]
    ELSE IF BatchStep(st, batch_size) = st
         THEN [hangs |-> TRUE, batches |-> <<>>]
         ELSE BatchRun(BatchStep(st, batch_size), batch_size)

batch_response(in_msg, batch_size) ==
    BatchRun(batch_start(in_msg), batch_size)

(***************************************************************************)
(* json.dumps of the history's dict in save, and json.loads followed by    *)
(* the ConversationHistory constructor in get.  The text is a sequence of  *)
(* tokens: the structure tokens, the key names, the digits of an id, and   *)
(* the characters of a string between quotes, a newline written \n and a   *)
(* tab written \t.                                                         *)
(***************************************************************************)
ConversationHistory(interacting_user_id, messages) ==
    [interacting_user_id |-> interacting_user_id, messages |-> messages]

IntStr(n) == CASE n = 1 -> "1" [] n = 2 -> "2" [] n = 3 -> "3"

StrInt(tok) == CHOOSE n \in Ids : IntStr(n) = tok

EscapeChar(c) ==
    CASE c = "nl" -> <<"\\", "n">>
      [] c = "tab" -> <<"\\", "t">>
      [] OTHER -> <<c>>

DumpsStr(s) ==
    <<"\"">> \o Flatten([k \in 1..Len(s) |-> EscapeChar(s[k])]) \o <<"\"">>

DumpsMsg(msg) ==
    <<"{", "author_id", IntStr(msg.author_id), "body">>
        \o DumpsStr(msg.body) \o <<"}">>

\* A serialisation that writes the newest message first.
DumpsReversed(history) ==
    LET n == Len(history.messages)
    IN  <<"{", "interacting_user_id", IntStr(history.interacting_user_id),
          "messages", "[">>
        \o Flatten([k \in 1..n |-> DumpsMsg(history.messages[n + 1 - k])])
        \o <<"]", "}">>

json_dumps(history) ==
    <<"{", "interacting_user_id", IntStr(history.interacting_user_id),
      "messages", "[">>
        \o Flatten([k \in 1..Len(history.messages) |->
                        DumpsMsg(history.messages[k])])
        \o <<"]", "}">>

RECURSIVE LoadsStr(_, _, _)
\* The string whose opening quote precedes position pos: its value and the
\* position after its closing quote.
LoadsStr(t, pos, acc) ==
    IF t[pos] = "\"" THEN [val |-> acc, next |-> pos + 1]
    ELSE IF t[pos] = "\\"
         THEN LoadsStr(t, pos + 2,
                       Append(acc, IF t[pos + 1] = "n" THEN "nl" ELSE "tab"))
         ELSE LoadsStr(t, pos + 1, Append(acc, t[pos]))

RECURSIVE LoadsMsgs(_, _, _)
\* The messages of the list whose opening bracket precedes position pos.
LoadsMsgs(t, pos, acc) ==
    IF t[pos] = "]" THEN acc
    ELSE LET s == LoadsStr(t, pos + 5, <<>>)
         IN  LoadsMsgs(t, s.next + 1,
                       Append(acc, HistoryMessage(StrInt(t[pos + 2]), s.val)))

json_loads(t) ==
    ConversationHistory(StrInt(t[3]), LoadsMsgs(t, 6, <<>>))

\* ConversationHistoryRepo.get, given what redis GET returned.
repo_get(raw_json, interacting_user_id) ==
    IF raw_json = NoKey
    THEN ConversationHistory(interacting_user_id, <<>>)
    ELSE json_loads(raw_json)

(***************************************************************************)
(* The state.                                                              *)
(***************************************************************************)
VARIABLES
    store,        \* Redis: user id -> the value of the user's data key
    lock,         \* Redis: user id -> the invocation holding the user's lock key
    pc,           \* invocation -> the await it is at
    kind,         \* invocation -> the command it handles
    user,         \* invocation -> interaction.user.id
    channel,      \* invocation -> interaction.channel_id
    prompt,       \* invocation -> the prompt argument
    history,      \* invocation -> the ConversationHistory its repo object wraps
    loaded,       \* invocation -> the messages ConversationHistoryRepo.get returned
    asked,        \* invocation -> the text it passed to create_completion
    completion,   \* invocation -> what create_completion returned
    out,          \* invocation -> the messages it sent to the user, in order
    cleared,      \* user id -> since the last save of a clear: the chats received
    t_pc,         \* SpecTrim: "off", "call" or "done"
    t_in,         \* SpecTrim: the arguments of the call of trim
    t_out,        \* SpecTrim: what the call left
    b_in,         \* SpecBatch: the arguments of the call of batch_response
    b_st          \* SpecBatch: the position of the call and its locals

main_vars ==
    <<store, lock, pc, kind, user, channel, prompt, history, loaded, asked,
      completion, out, cleared>>

trim_vars == <<t_pc, t_in, t_out>>

batch_vars == <<b_in, b_st>>

vars ==
    <<store, lock, pc, kind, user, channel, prompt, history, loaded, asked,
      completion, out, cleared, t_pc, t_in, t_out, b_in, b_st>>

\* No interaction: the user id and the channel id of an invocation slot that
\* handles nothing.
NoUser == 0

NoChannel == "no-channel"

EmptyHistory == ConversationHistory(NoUser, <<>>)

\* The inputs of the model: the commands, the prompts (a short one, one that
\* is a single word longer than a Discord message, one that fails the length
\* check), the channels a request comes from and the texts create_completion
\* returns.
Kinds == {"chat", "incognito", "transcript", "clear"}

LongWord == [k \in 1..(MAX_DISCORD_MSG_LENGTH - 2) |-> "x"]

LongPrompt == [k \in 1..(MAX_PROMPT_LENGTH + 1) |-> "x"]

Prompts == {<<"x">>, LongWord, LongPrompt}

Completions == {<<"nl", "x">>, <<"tab", "x">>, <<"sp">>}

\* DiscordBot.channel_id, the one channel the bot answers in, and the
\* channels an interaction can come from.
ConfiguredChannel == "bot-channel"

Channels == {"bot-channel", "other-channel"}

NoTrimCall == [messages |-> <<>>, max_characters |-> 0, lookup_ok |-> TRUE]

NoTrimResult == [messages |-> <<>>, raised |-> "none"]

NoBatchCall == [in_msg |-> <<>>, batch_size |-> 0]

NoBatchState ==
    [pc |-> "off", words |-> <<>>, word |-> <<>>, current_batch |-> <<>>,
     batches |-> <<>>]

InitMain ==
    /\ store = [u \in Users |-> NoKey]
    /\ lock = [u \in Users |-> NoHolder]
    /\ pc = [i \in Procs |-> "idle"]
    /\ kind = [i \in Procs |-> "none"]
    /\ user = [i \in Procs |-> NoUser]
    /\ channel = [i \in Procs |-> NoChannel]
    /\ prompt = [i \in Procs |-> <<>>]
    /\ history = [i \in Procs |-> EmptyHistory]
    /\ loaded = [i \in Procs |-> <<>>]
    /\ asked = [i \in Procs |-> NotAsked]
    /\ completion = [i \in Procs |-> NotAsked]
    /\ out = [i \in Procs |-> <<>>]
    /\ cleared = [u \in Users |-> "na"]

Init ==
    /\ InitMain
    /\ t_pc = "off"
    /\ t_in = NoTrimCall
    /\ t_out = NoTrimResult
    /\ b_in = NoBatchCall
    /\ b_st = NoBatchState

(***************************************************************************)
(* Control flow shared by the handlers.                                    *)
(***************************************************************************)
\* Where an exception raised inside the `async with` block goes without the
\* context manager: straight to the handler's except clause.
RaisedInsideSkipsAexit == "catch"

\* Where an exception raised inside the `async with await history.lock()`
\* block goes: ConversationHistoryLock.__aexit__ runs first.
RaisedInside == "aexit_exc"

\* Where an exception raised outside the block goes: the except clause.
RaisedOutside == "catch"

\* The awaits at which an invocation holds the lock of its user, and the
\* place where chat calls batch_response, which it does inside the block.
LockedPCs ==
    {"trim1", "complete", "save", "send", "send_spin", "clear_save",
     "aexit_ok", "aexit_exc"}

InFlight(i) == pc[i] \notin {"idle", "done"}

\* batch_response is a plain function, not a coroutine: while it runs, and
\* so for ever when it does not return, the event loop runs nothing else.
Hung == \E i \in Procs : pc[i] \in {"send_spin", "spin"}

Running == ~Hung

\* The handler returns: its interaction, its arguments and its repo object
\* are dropped.  What it sent stays with the user.
Ends(i) ==
    /\ pc' = [pc EXCEPT ![i] = "done"]
    /\ user' = [user EXCEPT ![i] = NoUser]
    /\ channel' = [channel EXCEPT ![i] = NoChannel]
    /\ prompt' = [prompt EXCEPT ![i] = <<>>]
    /\ history' = [history EXCEPT ![i] = EmptyHistory]
    /\ loaded' = [loaded EXCEPT ![i] = <<>>]
    /\ asked' = [asked EXCEPT ![i] = NotAsked]
    /\ completion' = [completion EXCEPT ![i] = NotAsked]

\* The variables Ends sets.
locals == <<user, channel, prompt, history, loaded, asked, completion>>

Goto(i, p) == pc' = [pc EXCEPT ![i] = p]

\* An await raises and control goes to p.  Nothing reads the channel, the
\* prompt, the repo object or the text sent to the client after that, so they
\* are dropped here.
Raises(i, p) ==
    /\ pc' = [pc EXCEPT ![i] = p]
    /\ channel' = [channel EXCEPT ![i] = NoChannel]
    /\ prompt' = [prompt EXCEPT ![i] = <<>>]
    /\ history' = [history EXCEPT ![i] = EmptyHistory]
    /\ loaded' = [loaded EXCEPT ![i] = <<>>]
    /\ asked' = [asked EXCEPT ![i] = NotAsked]

\* The variables Raises sets, and the locals it keeps.
dropped == <<prompt, history, loaded, asked, channel>>

kept == <<user, completion>>

\* The text of the answer is not read after an exception either.
Forgets(i) == completion' = [completion EXCEPT ![i] = NotAsked]

Sends(i, msg) == out' = [out EXCEPT ![i] = Append(@, msg)]

(***************************************************************************)
(* The lock: redis_client.lock(key) with no timeout, acquired blocking.    *)
(***************************************************************************)
\* A lock that any caller gets at once.
LockIsFreeAlways(u) == TRUE

\* RedisLock.acquire sets the lock key only if it does not exist, and with
\* blocking=True retries until it does.
LockIsFree(u) == lock[u] = NoHolder

\* ConversationHistoryLock.__aenter__
aenter(i) == lock' = [lock EXCEPT ![user[i]] = i]

\* ConversationHistoryLock.__aexit__
aexit(i) == lock' = [lock EXCEPT ![user[i]] = NoHolder]

\* A check that lets every channel through.
ChannelAlwaysAllowed(channel_id) == TRUE

\* DiscordBot.check_channel_allowed: the condition under which it lets the
\* interaction through.
channel_allowed(channel_id) ==
    ~(ConfiguredChannel # "None" /\ channel_id # ConfiguredChannel)

(***************************************************************************)
(* The platform delivers a command and the handler runs to its first       *)
(* await: check_channel_allowed awaits nothing when it lets the            *)
(* interaction through, so the handler is then at the defer; otherwise it  *)
(* is at the send of the rejection, after which nothing reads the prompt.  *)
(***************************************************************************)
Receive(i) ==
    /\ Running
    /\ pc[i] \in {"idle", "done"}
    /\ \E k \in Kinds, u \in Users, ch \in Channels, p \in Prompts :
        /\ kind' = [kind EXCEPT ![i] = k]
        /\ user' = [user EXCEPT ![i] = u]
        /\ channel' = [channel EXCEPT ![i] = ch]
        /\ prompt' = [prompt EXCEPT ![i] =
                        IF k \in {"chat", "incognito"} /\ channel_allowed(ch)
                        THEN p ELSE <<>>]
        /\ cleared' = IF k = "chat" THEN [cleared EXCEPT ![u] = "na"]
                                    ELSE cleared
        /\ Goto(i, IF channel_allowed(ch) THEN "defer" ELSE "check")
    /\ history' = [history EXCEPT ![i] = EmptyHistory]
    /\ loaded' = [loaded EXCEPT ![i] = <<>>]
    /\ asked' = [asked EXCEPT ![i] = NotAsked]
    /\ completion' = [completion EXCEPT ![i] = NotAsked]
    /\ out' = [out EXCEPT ![i] = <<>>]
    /\ UNCHANGED <<store, lock, trim_vars, batch_vars>>

\* `if not await self.check_channel_allowed(interaction): return` for an
\* interaction from another channel: the rejection is sent with
\* response.send_message and the handler returns, or that send raises.
CheckChannel(i) ==
    /\ Running
    /\ pc[i] = "check"
    /\ \/ /\ Sends(i, "wrong_channel")
          /\ Ends(i)
       \/ /\ Raises(i, RaisedOutside)
          /\ UNCHANGED <<out, kept>>
    /\ UNCHANGED <<store, lock, kind, cleared, trim_vars, batch_vars>>

\* A length check that lets every prompt through.
PromptNeverTooLong(p) == FALSE

\* `if len(prompt) > MAX_PROMPT_LENGTH`
prompt_too_long(p) == Len(p) > MAX_PROMPT_LENGTH

\* `await interaction.response.defer()`, and in chat and incognito_chat the
\* length check that follows it.
Defer(i) ==
    /\ Running
    /\ pc[i] = "defer"
    /\ \/ /\ Goto(i, CASE kind[i] \in {"chat", "incognito"}
                            /\ prompt_too_long(prompt[i]) -> "too_long"
                       [] kind[i] = "incognito" -> "inc_complete"
                       [] OTHER -> "get")
          /\ UNCHANGED dropped
       \/ Raises(i, RaisedOutside)
    /\ UNCHANGED <<store, lock, kind, kept, out, cleared, trim_vars,
                   batch_vars>>

\* chat and incognito_chat: the reply to a prompt that is too long, then
\* `return`.
TooLong(i) ==
    /\ Running
    /\ pc[i] = "too_long"
    /\ \/ /\ Sends(i, "prompt_too_long")
          /\ Ends(i)
       \/ /\ Raises(i, RaisedOutside)
          /\ UNCHANGED <<out, kept>>
    /\ UNCHANGED <<store, lock, kind, cleared, trim_vars, batch_vars>>

\* `history = await self.conversation_history_repo.get(interaction.user.id)`
\* in chat, transcript and clear_transcript.
Get(i) ==
    /\ Running
    /\ pc[i] = "get"
    /\ \/ LET h == repo_get(store[user[i]], user[i])
          IN  /\ history' = [history EXCEPT ![i] = h]
              /\ loaded' = [loaded EXCEPT ![i] = h.messages]
              /\ Goto(i, IF kind[i] = "transcript" THEN "tr_send"
                                                   ELSE "acquire")
              /\ UNCHANGED <<prompt, asked, channel>>
       \/ Raises(i, RaisedOutside)
    /\ UNCHANGED <<store, lock, kind, kept, out, cleared, trim_vars,
                   batch_vars>>

\* `async with await history.lock():` entering the block.
Acquire(i) ==
    /\ Running
    /\ pc[i] = "acquire"
    /\ \/ /\ LockIsFree(user[i])
          /\ aenter(i)
          /\ Goto(i, IF kind[i] = "chat" THEN "trim1" ELSE "clear_save")
          /\ UNCHANGED dropped
       \/ /\ Raises(i, RaisedOutside)
          /\ UNCHANGED lock
    /\ UNCHANGED <<store, kind, kept, out, cleared, trim_vars, batch_vars>>

(***************************************************************************)
(* DiscordBot.chat, inside the block.                                      *)
(***************************************************************************)
\* history.messages.extend([prompt, blank]); await history.trim(...)
ChatTrim1(i) ==
    /\ Running
    /\ pc[i] = "trim1"
    /\ \E lookup_ok \in BOOLEAN :
        LET extended == history[i].messages
                          \o <<HistoryMessage(user[i], prompt[i]),
                               HistoryMessage(BotId, <<>>)>>
            r == trim(extended, MAX_PROMPT_LENGTH, lookup_ok)
        IN  IF r.raised = "none"
            THEN /\ history' = [history EXCEPT ![i].messages = r.messages]
                 /\ Goto(i, "complete")
                 /\ UNCHANGED <<prompt, loaded, asked, channel>>
            ELSE Raises(i, RaisedInside)
    /\ UNCHANGED <<store, lock, kind, kept, out, cleared, trim_vars,
                   batch_vars>>

\* A handler that saves the blank message when the client has no answer.
NoAnswerSaves == "save"

\* `if ai_resp is None: logger("No AI response")`: logger is a
\* logging.Logger, which is not callable, so the call raises TypeError and the
\* send and the return that follow it are never reached.
NoAnswerNext == RaisedInside

\* The text chat passes to create_completion: the lines of the history
\* joined by newlines.
chat_transcript(messages) ==
    Join(<<"nl">>, as_transcript_lines(messages).lines)

\* `transcript = ...; ai_resp = await create_completion(transcript)`: the
\* rendering or the client raises, or the client has no answer, or it returns
\* a text, which is stripped and written into the blank message before the
\* second `await history.trim(MAX_PROMPT_LENGTH)`.
ChatComplete(i) ==
    /\ Running
    /\ pc[i] = "complete"
    /\ \/ /\ Raises(i, RaisedInside)
          /\ UNCHANGED completion
       \/ /\ completion' = [completion EXCEPT ![i] = None]
          /\ IF NoAnswerNext = RaisedInside
             THEN Raises(i, RaisedInside)
             ELSE Goto(i, NoAnswerNext) /\ UNCHANGED dropped
       \/ \E c \in Completions, lookup_ok \in BOOLEAN :
            LET filled == [history[i].messages EXCEPT
                             ![Len(history[i].messages)].body =
                                 rm_leading_newlines(c)]
                r == trim(filled, MAX_PROMPT_LENGTH, lookup_ok)
            IN  IF r.raised = "none"
                THEN /\ completion' = [completion EXCEPT ![i] = c]
                     /\ history' = [history EXCEPT ![i].messages = r.messages]
                     /\ asked' = [asked EXCEPT ![i] =
                                    chat_transcript(history[i].messages)]
                     /\ Goto(i, "save")
                     /\ UNCHANGED <<prompt, loaded, channel>>
                ELSE /\ Raises(i, RaisedInside)
                     /\ UNCHANGED completion
    /\ UNCHANGED <<store, lock, kind, user, out, cleared, trim_vars,
                   batch_vars>>

\* ConversationHistoryRepoObject.save: redis SET of the key get computed.
save(i, h) == store' = [store EXCEPT ![user[i]] = json_dumps(h)]

\* `await history.save()` in chat.
ChatSave(i) ==
    /\ Running
    /\ pc[i] = "save"
    /\ \/ /\ save(i, history[i])
          /\ Goto(i, "send")
          /\ UNCHANGED dropped
          /\ UNCHANGED completion
       \/ /\ Raises(i, RaisedInside)
          /\ Forgets(i)
          /\ UNCHANGED store
    /\ UNCHANGED <<lock, kind, user, out, cleared, trim_vars, batch_vars>>

\* resp_txt of chat: the prompt quoted, the mention of the author, a blank
\* line and the answer.
resp_txt(p, author_id, ai_resp) ==
    <<">", "sp">> \o p
        \o <<"nl", ">", "sp", "nl", ">", "sp", "~", "sp", "<", "@",
             IntStr(author_id), ">", "nl", "nl">>
        \o ai_resp

\* The two get_username calls of logger.info, then
\* `for batch in self.batch_response(resp_txt): await followup.send(batch)`:
\* a lookup or the first send raises, or batch_response does not return, or
\* every batch is sent, or a later send raises.
ChatSend(i) ==
    /\ Running
    /\ pc[i] = "send"
    /\ LET r == batch_response(
                    resp_txt(prompt[i], user[i],
                             rm_leading_newlines(completion[i])),
                    MAX_DISCORD_MSG_LENGTH)
       IN  \/ /\ Raises(i, RaisedInside)
              /\ Forgets(i)
              /\ UNCHANGED out
           \/ /\ r.hangs
              /\ Goto(i, "send_spin")
              /\ UNCHANGED <<out, dropped, completion>>
           \/ /\ ~r.hangs
              /\ Sends(i, "reply")
              /\ Goto(i, "aexit_ok")
              /\ UNCHANGED <<dropped, completion>>
           \/ /\ ~r.hangs
              /\ Len(r.batches) > 1
              /\ Sends(i, "reply_part")
              /\ Raises(i, RaisedInside)
              /\ Forgets(i)
    /\ UNCHANGED <<store, lock, kind, user, cleared, trim_vars, batch_vars>>

(***************************************************************************)
(* DiscordBot.incognito_chat after the length check.                       *)
(***************************************************************************)
\* An incognito chat that sends the stored transcript along.
IncognitoWithTranscript(i) ==
    chat_transcript(repo_get(store[user[i]], user[i]).messages) \o prompt[i]

\* The argument of create_completion in incognito_chat.
incognito_prompt(i) == prompt[i]

\* `ai_resp = await self.openai_client.create_completion(prompt)`: the client
\* raises, or it has no answer and the call of logger raises, or it returns a
\* text.
IncComplete(i) ==
    /\ Running
    /\ pc[i] = "inc_complete"
    /\ \/ /\ Raises(i, RaisedOutside)
          /\ UNCHANGED completion
       \/ /\ completion' = [completion EXCEPT ![i] = None]
          /\ Raises(i, RaisedOutside)
       \/ \E c \in Completions :
            /\ asked' = [asked EXCEPT ![i] = incognito_prompt(i)]
            /\ completion' = [completion EXCEPT ![i] = c]
            /\ Goto(i, "inc_send")
            /\ UNCHANGED <<prompt, history, loaded, channel>>
    /\ UNCHANGED <<store, lock, kind, user, out, cleared, trim_vars,
                   batch_vars>>

\* resp_txt of incognito_chat: a heading line and a blank line before the
\* text chat sends.  The heading's words are far shorter than a Discord
\* message; the model writes the heading as one character.
incognito_resp_txt(p, author_id, ai_resp) ==
    <<"i", "nl", "nl">> \o resp_txt(p, author_id, ai_resp)

\* The get_username calls of logger.info and the sends of incognito_chat.
IncSend(i) ==
    /\ Running
    /\ pc[i] = "inc_send"
    /\ LET r == batch_response(
                    incognito_resp_txt(prompt[i], user[i],
                                       rm_leading_newlines(completion[i])),
                    MAX_DISCORD_MSG_LENGTH)
       IN  \/ /\ Raises(i, RaisedOutside)
              /\ Forgets(i)
              /\ UNCHANGED <<out, user>>
           \/ /\ r.hangs
              /\ Goto(i, "spin")
              /\ UNCHANGED <<out, locals>>
           \/ /\ ~r.hangs
              /\ Sends(i, "reply")
              /\ Ends(i)
           \/ /\ ~r.hangs
              /\ Len(r.batches) > 1
              /\ Sends(i, "reply_part")
              /\ Raises(i, RaisedOutside)
              /\ Forgets(i)
              /\ UNCHANGED user
    /\ UNCHANGED <<store, lock, kind, cleared, trim_vars, batch_vars>>

(***************************************************************************)
(* DiscordBot.transcript after the load.                                   *)
(***************************************************************************)
\* username_md: the name in bold, a colon and a space.
username_md(username) == <<"*", "*">> \o username \o <<":", "*", "*", "sp">>

RECURSIVE transcript_lines(_)
\* The loop over history.messages: every body is batched to what is left of
\* a Discord message after the name, and every batch becomes a line.
transcript_lines(messages) ==
    IF messages = <<>> THEN [hangs |-> FALSE, lines |-> <<>>]
    ELSE LET md == username_md(get_username(Head(messages).author_id))
             r == batch_response(Head(messages).body,
                                 MAX_DISCORD_MSG_LENGTH - Len(md))
             rest == transcript_lines(Tail(messages))
         IN  IF r.hangs \/ rest.hangs
             THEN [hangs |-> TRUE, lines |-> <<>>]
             ELSE [hangs |-> FALSE,
                   lines |-> [k \in 1..Len(r.batches) |-> md \o r.batches[k]]
                               \o rest.lines]

\* The text sent for a history without messages.
NoTranscriptHistory == <<"*", "N", "sp", "t", "sp", "h", "*">>

\* A transcript without the text for an empty history.
TranscriptNoSentinel(messages, lines) == Join(<<"nl", "nl">>, lines)

\* `if len(history.messages) > 0: ... else: ...`
transcript_text(messages, lines) ==
    IF Len(messages) > 0 THEN Join(<<"nl", "nl">>, lines)
    ELSE NoTranscriptHistory

\* interaction_txt: a heading, a blank line and the transcript.  The model
\* writes the heading as one character.
interaction_txt(transcript) == <<"H", "nl", "nl">> \o transcript

\* The rest of transcript: the names are looked up and the bodies batched,
\* the text is batched and every batch is sent.  A lookup or the first send
\* raises, or batch_response does not return, or every batch is sent, or a
\* later send raises.
TranscriptSend(i) ==
    /\ Running
    /\ pc[i] = "tr_send"
    /\ LET messages == history[i].messages
           tl == transcript_lines(messages)
           txt == transcript_text(messages, tl.lines)
           r == batch_response(interaction_txt(txt), MAX_DISCORD_MSG_LENGTH)
       IN  \/ /\ Raises(i, RaisedOutside)
              /\ UNCHANGED <<out, kept>>
           \/ /\ tl.hangs \/ r.hangs
              /\ Goto(i, "spin")
              /\ UNCHANGED <<out, locals>>
           \/ /\ ~(tl.hangs \/ r.hangs)
              /\ Sends(i, IF txt = NoTranscriptHistory THEN "no_transcript"
                                                       ELSE "transcript")
              /\ Ends(i)
           \/ /\ ~(tl.hangs \/ r.hangs)
              /\ Len(r.batches) > 1
              /\ Sends(i, "transcript_part")
              /\ Raises(i, RaisedOutside)
              /\ UNCHANGED kept
    /\ UNCHANGED <<store, lock, kind, cleared, trim_vars, batch_vars>>

(***************************************************************************)
(* DiscordBot.clear_transcript, inside the block and after it.             *)
(***************************************************************************)
\* A clear that forgets the assignment.
ClearKeepsMessages(h) == h

\* `history.messages = []`
clear_messages(h) == [h EXCEPT !.messages = <<>>]

\* `history.messages = []; await history.save()`
ClearSave(i) ==
    /\ Running
    /\ pc[i] = "clear_save"
    /\ \/ /\ history' = [history EXCEPT ![i] = clear_messages(@)]
          /\ save(i, clear_messages(history[i]))
          /\ cleared' =
               [cleared EXCEPT ![user[i]] =
                  IF \E j \in Procs : /\ kind[j] = "chat"
                                      /\ user[j] = user[i]
                                      /\ InFlight(j)
                  THEN "inflight" ELSE "quiet"]
          /\ Goto(i, "aexit_ok")
          /\ UNCHANGED <<prompt, loaded, asked, channel>>
       \/ /\ Raises(i, RaisedInside)
          /\ UNCHANGED <<store, cleared>>
    /\ UNCHANGED <<lock, kind, kept, out, trim_vars, batch_vars>>

\* The reply of clear_transcript, sent after the block.
ClearSend(i) ==
    /\ Running
    /\ pc[i] = "clear_send"
    /\ \/ /\ Sends(i, "cleared")
          /\ cleared' =
               [cleared EXCEPT ![user[i]] =
                  CASE @ = "quiet" -> "quiet_done"
                    [] @ = "inflight" -> "inflight_done"
                    [] OTHER -> @]
          /\ Ends(i)
       \/ /\ Raises(i, RaisedOutside)
          /\ UNCHANGED <<out, cleared, kept>>
    /\ UNCHANGED <<store, lock, kind, trim_vars, batch_vars>>

(***************************************************************************)
(* Leaving the block, and the except clause of the handlers.               *)
(***************************************************************************)
\* __aexit__ after the block ended normally: chat returns, clear_transcript
\* goes on to its reply.
AexitOk(i) ==
    /\ Running
    /\ pc[i] = "aexit_ok"
    /\ aexit(i)
    /\ IF kind[i] = "chat"
       THEN Ends(i)
       ELSE /\ Goto(i, "clear_send")
            /\ UNCHANGED locals
    /\ UNCHANGED <<store, kind, out, cleared, trim_vars, batch_vars>>

\* __aexit__ with an exception in flight: the lock is released and the
\* exception goes on to the except clause.
AexitExc(i) ==
    /\ Running
    /\ pc[i] = "aexit_exc"
    /\ aexit(i)
    /\ Goto(i, "catch")
    /\ UNCHANGED <<store, kind, locals, out, cleared, trim_vars, batch_vars>>

\* `except Exception`: the generic error is sent; a failure of that send is
\* logged and swallowed.
Catch(i) ==
    /\ Running
    /\ pc[i] = "catch"
    /\ \/ Sends(i, "unexpected_error")
       \/ UNCHANGED out
    /\ Ends(i)
    /\ UNCHANGED <<store, lock, kind, cleared, trim_vars, batch_vars>>

Next ==
    \E i \in Procs :
        \/ Receive(i)
        \/ CheckChannel(i)
        \/ Defer(i)
        \/ TooLong(i)
        \/ Get(i)
        \/ Acquire(i)
        \/ ChatTrim1(i)
        \/ ChatComplete(i)
        \/ ChatSave(i)
        \/ ChatSend(i)
        \/ IncComplete(i)
        \/ IncSend(i)
        \/ TranscriptSend(i)
        \/ ClearSave(i)
        \/ ClearSend(i)
        \/ AexitOk(i)
        \/ AexitExc(i)
        \/ Catch(i)

Spec == Init /\ [][Next]_vars

\* What the event loop runs of invocation i once its command has arrived:
\* every step of its handler.
Step(i) ==
    \/ CheckChannel(i)
    \/ Defer(i)
    \/ TooLong(i)
    \/ Get(i)
    \/ Acquire(i)
    \/ ChatTrim1(i)
    \/ ChatComplete(i)
    \/ ChatSave(i)
    \/ ChatSend(i)
    \/ IncComplete(i)
    \/ IncSend(i)
    \/ TranscriptSend(i)
    \/ ClearSave(i)
    \/ ClearSend(i)
    \/ AexitOk(i)
    \/ AexitExc(i)
    \/ Catch(i)

\* Fair scheduling: every call a handler awaits returns or raises, and the
\* event loop resumes every handler whose await has completed.  Nothing is
\* asked of the arrival of commands.
SpecFair == Init /\ [][Next]_vars /\ \A i \in Procs : WF_vars(Step(i))

(***************************************************************************)
(* SpecTrim: one call of trim on any history of at most MaxMsgs messages   *)
(* with any budget up to MaxBudget.                                        *)
(***************************************************************************)
TrimBodies == {<<>>, <<"x", "x">>}

TrimMessages == {HistoryMessage(a, b) : a \in Ids \ {2}, b \in TrimBodies}

TrimHistories == UNION {[1..n -> TrimMessages] : n \in 0..MaxMsgs}

InitTrim ==
    /\ InitMain
    /\ t_pc = "call"
    /\ t_in \in [messages : TrimHistories,
                 max_characters : 0..MaxBudget,
                 lookup_ok : BOOLEAN]
    /\ t_out = NoTrimResult
    /\ b_in = NoBatchCall
    /\ b_st = NoBatchState

\* `await history.trim(max_characters)`
TrimCall ==
    /\ t_pc = "call"
    /\ t_out' = trim(t_in.messages, t_in.max_characters, t_in.lookup_ok)
    /\ t_pc' = "done"
    /\ UNCHANGED <<t_in, main_vars, batch_vars>>

NextTrim == TrimCall

SpecTrim == InitTrim /\ [][NextTrim]_vars

(***************************************************************************)
(* SpecBatch: one call of batch_response on any text of at most MaxText    *)
(* characters with any batch_size from 1 to MaxBatch, run one loop         *)
(* iteration at a time.                                                    *)
(***************************************************************************)
BatchTexts == UNION {[1..n -> {"x", "sp"}] : n \in 0..MaxText}

InitBatch ==
    /\ InitMain
    /\ t_pc = "off"
    /\ t_in = NoTrimCall
    /\ t_out = NoTrimResult
    /\ b_in \in [in_msg : BatchTexts, batch_size : 1..MaxBatch]
    /\ b_st = NoBatchState

\* batch_response is called.
BatchCall ==
    /\ b_st.pc = "off"
    /\ b_st' = batch_start(b_in.in_msg)
    /\ UNCHANGED <<b_in, main_vars, trim_vars>>

\* One iteration of the for loop or of the while loop, or the return.
BatchIterate ==
    /\ b_st.pc \in {"for", "while"}
    /\ b_st' = BatchStep(b_st, b_in.batch_size)
    /\ UNCHANGED <<b_in, main_vars, trim_vars>>

NextBatch == BatchCall \/ BatchIterate

SpecBatch == InitBatch /\ [][NextBatch]_vars

\* The interpreter does not stop in the middle of batch_response: while the
\* call has a next statement that changes its locals, it executes it.
SpecBatchFair == InitBatch /\ [][NextBatch]_vars /\ WF_vars(NextBatch)

(***************************************************************************)
(* What the claims speak of.                                               *)
(***************************************************************************)
\* The messages ConversationHistoryRepo.get returns for user u now.
Messages(u) == repo_get(store[u], u).messages

\* The transcript of a list of messages: its lines joined by newlines.
Transcript(messages) == Join(<<"nl">>, as_transcript_lines(messages).lines)

\* The step in which chat invocation i saves.
ChatSaves(i) == kind[i] = "chat" /\ pc[i] = "save" /\ pc'[i] = "send"

\* Leading whitespace as str.lstrip understands it.
Whitespace == {"sp", "nl", "tab"}

IsSuffix(s, t) ==
    /\ Len(s) <= Len(t)
    /\ s = SubSeq(t, Len(t) - Len(s) + 1, Len(t))

(***************************************************************************)
(* C1.  Of two chat invocations for one owner that overlap, the one that   *)
(* takes the lock second works on a history that holds what the first one  *)
(* saved: when a chat invocation saves after the others have completed     *)
(* with their reply, the persisted history is the one persisted just       *)
(* before with the invocation's turn appended, so no turn is lost.         *)
(***************************************************************************)
C1_NoTurnLost ==
    [][\A i \in Procs :
         (/\ ChatSaves(i)
          /\ \A j \in Procs \ {i} :
                kind[j] = "chat" /\ pc[j] = "done" /\ out[j] = <<"reply">>) =>
            repo_get(store'[user[i]], user[i]).messages =
               Messages(user[i])
                  \o <<HistoryMessage(user[i], prompt[i]),
                       HistoryMessage(BotId,
                                      rm_leading_newlines(completion[i]))>>]_vars

(***************************************************************************)
(* C2.  At most one invocation is between acquiring and releasing the lock *)
(* of an owner, and it is the one the lock key names; another invocation   *)
(* for that owner waits at the acquire.                                    *)
(***************************************************************************)
C2_MutualExclusion ==
    \A i \in Procs :
        pc[i] \in LockedPCs =>
            /\ lock[user[i]] = i
            /\ \A j \in Procs \ {i} :
                 pc[j] \in LockedPCs => user[j] # user[i]

C2_Witness ==
    \E i, j \in Procs :
        /\ i # j
        /\ user[i] = user[j]
        /\ pc[i] \in LockedPCs
        /\ pc[j] = "acquire"

C4_PersistedTurn ==
    [][\A i \in Procs :
         ChatSaves(i) =>
            repo_get(store'[user[i]], user[i]).messages =
               loaded[i]
                  \o <<HistoryMessage(user[i], prompt[i]),
                       HistoryMessage(BotId,
                                      DropLeading(Whitespace, completion[i]))>>]_vars

(***************************************************************************)
(* C5.  The transcript of every persisted history is at most               *)
(* MAX_PROMPT_LENGTH characters long.                                      *)
(***************************************************************************)
C5_PersistedWithinBudget ==
    \A u \in Users : Len(Transcript(Messages(u))) <= MAX_PROMPT_LENGTH

(***************************************************************************)
(* C6.  After trim (the names resolving), the rendered lengths of the      *)
(* messages that remain sum to at most max_characters, or exactly one      *)
(* message remains and it alone is longer than max_characters.             *)
(***************************************************************************)
C6_TrimBound ==
    (t_pc = "done" /\ t_in.lookup_ok) =>
        \/ as_transcript_lines(t_out.messages).total_len <= t_in.max_characters
        \/ /\ Len(t_out.messages) = 1
           /\ Len(as_transcript_str(t_out.messages[1])) > t_in.max_characters

(***************************************************************************)
(* C7.  The messages trim leaves are a suffix of the messages it was       *)
(* given: it removes from the front only.                                  *)
(***************************************************************************)
C7_EvictsFromFront ==
    t_pc = "done" => IsSuffix(t_out.messages, t_in.messages)

\* trim removed a message and kept others.
C7_Witness ==
    /\ t_pc = "done"
    /\ t_out.messages # <<>>
    /\ Len(t_out.messages) < Len(t_in.messages)

(***************************************************************************)
(* C8.  As claimed: once a clear-transcript invocation has completed, get  *)
(* returns no messages until a chat invocation for the owner is received,  *)
(* also when chat invocations were in flight while the clear ran.          *)
(***************************************************************************)
C8_ClearedStaysEmpty ==
    \A u \in Users :
        cleared[u] \in {"quiet_done", "inflight_done"} => Messages(u) = <<>>

(***************************************************************************)
(* C8, amended.  From the save of a clear-transcript invocation on, get    *)
(* returns no messages until a chat invocation for the owner is received,  *)
(* provided no chat invocation for the owner was in flight at that save.   *)
(***************************************************************************)
C8_ClearedStaysEmptyWithoutChats ==
    \A u \in Users :
        cleared[u] \in {"quiet", "quiet_done"} => Messages(u) = <<>>

\* A clear has completed undisturbed after a chat had saved a turn and
\* replied.
C8_Witness ==
    \E u \in Users, j \in Procs :
        /\ cleared[u] = "quiet_done"
        /\ store[u] # NoKey
        /\ kind[j] = "chat" /\ pc[j] = "done" /\ out[j] = <<"reply">>

(***************************************************************************)
(* C9.  After an invocation has saved and while it still holds the lock    *)
(* (so no other save came in between), get returns a history equal to the  *)
(* one saved: the same owner id and the same messages in the same order.   *)
(***************************************************************************)
C9_SaveThenGet ==
    \A i \in Procs :
        pc[i] \in {"send", "aexit_ok"} =>
            repo_get(store[user[i]], user[i]) = history[i]

\* A history of two turns has been saved.
C9_Witness ==
    \E i \in Procs :
        /\ pc[i] = "send"
        /\ Len(history[i].messages) = 4
        /\ Len(Messages(user[i])) = 4

(***************************************************************************)
(* C10.  An invocation whose completion call returned no answer changes no *)
(* persisted history in any of its steps.                                  *)
(***************************************************************************)
C10_NoAnswerNoSave ==
    [][\A i \in Procs :
         ((completion[i] = None \/ completion'[i] = None) /\ pc'[i] # pc[i])
            => store' = store]_vars

\* An invocation that got no answer has left the block.
C10_Witness ==
    \E i \in Procs : completion[i] = None /\ pc[i] = "catch"

(***************************************************************************)
(* C11.  When an invocation of chat or incognito_chat whose completion     *)
(* call returned no answer ends, it has not sent the generic error, and    *)
(* what it has sent is the one message that the AI did not know what to    *)
(* say.                                                                    *)
(***************************************************************************)
C11_NoAnswerMessage ==
    [][\A i \in Procs :
         (completion[i] = None /\ pc'[i] = "done") =>
            /\ \A k \in 1..Len(out'[i]) : out'[i][k] # "unexpected_error"
            /\ out'[i] # <<>> => out'[i] = <<"no_answer">>]_vars

(***************************************************************************)
(* C12.  Every invocation comes to its end, and when it has, it has sent   *)
(* exactly one outcome: the whole success reply of its command, or one     *)
(* error reply.                                                            *)
(***************************************************************************)
C12_OneOutcome ==
    \A i \in Procs :
        /\ pc[i] \notin {"send_spin", "spin"}
        /\ pc[i] = "done" =>
             out[i] \in {<<"reply">>, <<"transcript">>, <<"no_transcript">>,
                         <<"cleared">>, <<"wrong_channel">>,
                         <<"prompt_too_long">>, <<"no_answer">>,
                         <<"unexpected_error">>}

(***************************************************************************)
(* C13.  An invocation for an interaction from another channel than the    *)
(* configured one is at the send of the rejection and nowhere else: it is  *)
(* never at the defer or beyond, and the defer is reached from the         *)
(* configured channel only.  Its step changes no persisted history and no  *)
(* lock, loads no history and calls no completion; it ends with the        *)
(* rejection as the only message, or goes to the except clause.            *)
(***************************************************************************)
C13_WrongChannelRejected ==
    /\ [](\A i \in Procs :
            /\ channel[i] \notin {NoChannel, ConfiguredChannel} =>
                 pc[i] = "check"
            /\ pc[i] = "defer" => channel[i] = ConfiguredChannel)
    /\ [][\A i \in Procs :
            (pc[i] = "check" /\ pc'[i] # pc[i]) =>
               /\ store' = store
               /\ lock' = lock
               /\ history'[i] = EmptyHistory
               /\ completion'[i] = NotAsked
               /\ asked'[i] = NotAsked
               /\ pc'[i] \in {"done", "catch"}
               /\ pc'[i] = "done" => out'[i] = <<"wrong_channel">>]_vars

\* A request from another channel has been rejected while a history is
\* stored.
C13_Witness ==
    \E i \in Procs, u \in Users :
        /\ pc[i] = "done"
        /\ out[i] = <<"wrong_channel">>
        /\ store[u] # NoKey

(***************************************************************************)
(* C14.  When batch_response returns, its chunks concatenated in order are *)
(* the text followed by one space: the space that split takes after every  *)
(* word is put back after every word, the last one included, and no        *)
(* character is lost, repeated or moved.                                   *)
(***************************************************************************)
C14_ChunksReproduceText ==
    b_st.pc = "return" => Flatten(b_st.batches) = b_in.in_msg \o <<"sp">>

\* batch_response has returned more than one chunk.
C14_Witness ==
    /\ b_st.pc = "return"
    /\ Len(b_st.batches) > 1

(***************************************************************************)
(* C15.  In the loop that breaks a long word by character, a batch that    *)
(* has reached batch_size is closed: after every iteration of that loop    *)
(* the batch being filled is shorter than batch_size.                      *)
(***************************************************************************)
C15_FullBatchIsClosed ==
    [][(b_st.pc = "while" /\ b_st'.pc = "while") =>
          Len(b_st'.current_batch) < b_in.batch_size]_vars

(***************************************************************************)
(* C16.  A transcript invocation is never at the acquire or inside the     *)
(* block and holds no lock; none of its steps changes a persisted history  *)
(* or a lock; and when it replies for a history without messages, the      *)
(* reply is the text for no history.                                       *)
(***************************************************************************)
C16_TranscriptReadsOnly ==
    /\ [](\A i \in Procs :
            kind[i] = "transcript" =>
               /\ pc[i] \notin LockedPCs \cup {"acquire"}
               /\ \A u \in Users : lock[u] # i)
    /\ [][\A i \in Procs :
            (kind[i] = "transcript" /\ InFlight(i) /\ pc'[i] # pc[i]) =>
               /\ store' = store
               /\ lock' = lock
               /\ (/\ pc[i] = "tr_send"
                   /\ pc'[i] = "done"
                   /\ history[i].messages = <<>>) =>
                      out'[i] = <<"no_transcript">>]_vars

\* A transcript invocation has replied for a history without messages.
C16_Witness ==
    \E i \in Procs :
        /\ kind[i] = "transcript"
        /\ pc[i] = "done"
        /\ out[i] = <<"no_transcript">>

(***************************************************************************)
(* C17.  An incognito invocation never loads a history, is never at the    *)
(* acquire or inside the block and holds no lock; what it passes to the    *)
(* completion client is its prompt; none of its steps changes a persisted  *)
(* history or a lock.                                                      *)
(***************************************************************************)
C17_IncognitoLeavesStore ==
    /\ [](\A i \in Procs :
            kind[i] = "incognito" =>
               /\ pc[i] \notin LockedPCs \cup {"get", "acquire"}
               /\ \A u \in Users : lock[u] # i
               /\ history[i] = EmptyHistory
               /\ loaded[i] = <<>>
               /\ asked[i] # NotAsked => asked[i] = prompt[i])
    /\ [][\A i \in Procs :
            (kind[i] = "incognito" /\ InFlight(i) /\ pc'[i] # pc[i]) =>
               /\ store' = store
               /\ lock' = lock]_vars

\* An incognito invocation has its answer while a history with messages is
\* stored for its user.
C17_Witness ==
    \E i \in Procs :
        /\ kind[i] = "incognito"
        /\ pc[i] = "inc_send"
        /\ asked[i] = prompt[i]
        /\ Messages(user[i]) # <<>>

(***************************************************************************)
(* C18.  An invocation of chat or clear_transcript loads the history while *)
(* it holds the lock of the owner.                                         *)
(***************************************************************************)
C18_LoadUnderLock ==
    [][\A i \in Procs :
         (/\ kind[i] \in {"chat", "clear"}
          /\ pc[i] = "get"
          /\ pc'[i] = "acquire") => lock[user[i]] = i]_vars

(***************************************************************************)
(* C19.  trim (the names resolving) returns normally for every history and *)
(* every budget.                                                           *)
(***************************************************************************)
C19_TrimReturns ==
    (t_pc = "done" /\ t_in.lookup_ok) => t_out.raised = "none"

(***************************************************************************)
(* C20.  A chat invocation whose prompt is longer than MAX_PROMPT_LENGTH   *)
(* is at the defer or at the send of the rejection and nowhere else: it    *)
(* has loaded no history, called no completion and holds no lock.  The     *)
(* send of the rejection changes no persisted history and no lock, and the *)
(* invocation that ends after it has sent the rejection only.              *)
(***************************************************************************)
C20_LongPromptRejected ==
    /\ [](\A i \in Procs :
            (kind[i] = "chat" /\ Len(prompt[i]) > MAX_PROMPT_LENGTH) =>
               /\ pc[i] \in {"defer", "too_long"}
               /\ \A u \in Users : lock[u] # i
               /\ history[i] = EmptyHistory
               /\ loaded[i] = <<>>
               /\ asked[i] = NotAsked
               /\ completion[i] = NotAsked)
    /\ [][\A i \in Procs :
            (kind[i] = "chat" /\ pc[i] = "too_long" /\ pc'[i] # pc[i]) =>
               /\ store' = store
               /\ lock' = lock
               /\ pc'[i] \in {"done", "catch"}
               /\ pc'[i] = "done" => out'[i] = <<"prompt_too_long">>]_vars

\* A chat with a prompt that is too long has been rejected while a history
\* is stored.
C20_Witness ==
    \E i \in Procs, u \in Users :
        /\ kind[i] = "chat"
        /\ pc[i] = "done"
        /\ out[i] = <<"prompt_too_long">>
        /\ store[u] # NoKey

(***************************************************************************)
(* C21.  A chat invocation sends its reply, or a part of it, only when it  *)
(* no longer holds the lock of its user: the save comes first, then the    *)
(* release of the lock, then the reply.                                    *)
(***************************************************************************)
C21_ReplyAfterRelease ==
    [][\A i \in Procs :
         (/\ kind[i] = "chat"
          /\ Len(out'[i]) > Len(out[i])
          /\ out'[i][Len(out'[i])] \in {"reply", "reply_part"}) =>
            \A u \in Users : lock[u] # i /\ lock'[u] # i]_vars

(***************************************************************************)
(* C23.  Every call of batch_response, on any text and with any batch_size *)
(* of at least 1, eventually reaches its return statement.                 *)
(***************************************************************************)
C23_BatchResponseReturns == <>(b_st.pc = "return")

(***************************************************************************)
(* C22.  Under fair scheduling every chat invocation that has started      *)
(* eventually ends, with its reply or with an error, holding no lock; and  *)
(* every invocation that waits for the lock of its user eventually stops   *)
(* waiting.                                                                *)
(***************************************************************************)
C22_ChatTerminates ==
    \A i \in Procs :
        /\ (kind[i] = "chat" /\ InFlight(i)) ~>
              (pc[i] = "done" /\ \A u \in Users : lock[u] # i)
        /\ (pc[i] = "acquire") ~> (pc[i] # "acquire")

=============================================================================
